---- MODULE Spec2Model ----
(***************************************************************************)
(* Model of predict.py: the single-asset GBM forecast engine and the       *)
(* multi-asset portfolio VaR engine.                                       *)
(*                                                                         *)
(* Numbers.  The program computes in floating point over the reals; the    *)
(* model computes exactly over the rationals, a number being <<num, den>>  *)
(* in lowest terms with den > 0, and NaN being <<0, 0>>.  Logarithms and   *)
(* exponentials are taken to base 2 (a change of unit of the log-returns), *)
(* so that prices that are powers of two have integer log-returns and      *)
(* exp of an integer exponent is a rational.                               *)
(*                                                                         *)
(* Random draws.  np.random.standard_normal yields arbitrary reals.  The   *)
(* square roots the program takes (std, Cholesky) are irrational in        *)
(* general, so a draw is recorded by the shock it produces: an entry z of  *)
(* Z stands for the real draw for which sigma * Z (forecast_engine) or the *)
(* matching entry of Z @ L.T (var_engine, L invertible whenever the        *)
(* decomposition succeeds) equals z.  When sigma is 0 the shock is 0       *)
(* whatever the draw, as in the program.                                   *)
(***************************************************************************)
EXTENDS Integers, Sequences, FiniteSets, TLC

\* ------------------------------------------------------------------ bounds
\* Largest horizon and simulation count a call is made with.
MaxDays == 2
MaxSims == 2
\* Longest price history fetched (rows of the price table).
MaxObs == 5
\* Calls start only while fewer than this many normals have been drawn.
MaxDraws == 2
\* The volatility window, scaled down from the program's 30 observations so
\* that histories longer than the window and portfolios of window-1 assets
\* fit the model.
sigma_window == 3

\* ---------------------------------------------------------------- numbers
NaN == <<0, 0>>

IsNaN(a) == a[2] = 0

Abs(n) == IF n < 0 THEN -n ELSE n

RECURSIVE GCD(_, _)
GCD(a, b) == IF b = 0 THEN a ELSE GCD(b, a % b)

Norm(n, d) ==
    IF d = 0 THEN NaN
    ELSE LET g == GCD(Abs(n), Abs(d))
             s == IF d < 0 THEN -1 ELSE 1
         IN <<(s * n) \div g, (s * d) \div g>>

R(n) == <<n, 1>>

RAdd(a, b) == IF IsNaN(a) \/ IsNaN(b) THEN NaN
              ELSE Norm(a[1] * b[2] + b[1] * a[2], a[2] * b[2])

RNeg(a) == IF IsNaN(a) THEN NaN ELSE <<-a[1], a[2]>>

RSub(a, b) == RAdd(a, RNeg(b))

RMul(a, b) == IF IsNaN(a) \/ IsNaN(b) THEN NaN
              ELSE Norm(a[1] * b[1], a[2] * b[2])

RDiv(a, b) == IF IsNaN(a) \/ IsNaN(b) THEN NaN
              ELSE Norm(a[1] * b[2], a[2] * b[1])

\* IEEE comparisons: false as soon as one side is NaN.
RLe(a, b) == ~IsNaN(a) /\ ~IsNaN(b) /\ a[1] * b[2] <= b[1] * a[2]

RLt(a, b) == ~IsNaN(a) /\ ~IsNaN(b) /\ a[1] * b[2] < b[1] * a[2]

\* int(x): truncation toward zero.
Trunc(a) == IF a[1] >= 0 THEN a[1] \div a[2] ELSE -((-a[1]) \div a[2])

\* math.floor(x)
Floor(a) == a[1] \div a[2]

RECURSIVE Pow2(_)
Pow2(k) == IF k = 0 THEN 1 ELSE 2 * Pow2(k - 1)

\* np.exp in base 2, on an integer exponent (NaN propagates).
Exp2(x) ==
    IF IsNaN(x) \/ x[2] # 1 THEN NaN
    ELSE IF x[1] >= 0 THEN <<Pow2(x[1]), 1>> ELSE <<1, Pow2(-x[1])>>

RECURSIVE ILog2(_)
ILog2(n) == IF n <= 1 THEN 0 ELSE 1 + ILog2(n \div 2)

\* np.log in base 2, on a ratio of powers of two (NaN propagates).
Log2(a) ==
    IF IsNaN(a) \/ a[1] <= 0 THEN NaN
    ELSE IF a[2] = 1 /\ Pow2(ILog2(a[1])) = a[1] THEN R(ILog2(a[1]))
    ELSE IF a[1] = 1 /\ Pow2(ILog2(a[2])) = a[2] THEN R(-ILog2(a[2]))
    ELSE NaN

RECURSIVE RSum(_)
RSum(s) == IF s = <<>> THEN R(0) ELSE RAdd(Head(s), RSum(Tail(s)))

HasNaN(s) == \E i \in DOMAIN s : IsNaN(s[i])

Max(a, b) == IF a >= b THEN a ELSE b

\* s[-k:] of Python: the last k elements, or all of s when it is shorter.
LastK(s, k) == IF Len(s) <= k THEN s ELSE SubSeq(s, Len(s) - k + 1, Len(s))

\* ------------------------------------------------------------- statistics
\* np.mean: NaN (0/0) on an empty sequence.
Mean(s) == RDiv(RSum(s), R(Len(s)))

\* Sum of the products of the deviations of two equally long sequences.
RECURSIVE DevSum(_, _, _, _)
DevSum(x, mx, y, my) ==
    IF x = <<>> THEN R(0)
    ELSE RAdd(RMul(RSub(Head(x), mx), RSub(Head(y), my)),
              DevSum(Tail(x), mx, Tail(y), my))

\* Sample covariance with divisor max(n - ddof, 0), as numpy and pandas take
\* it: NaN (0/0) with fewer than ddof + 1 observations.
Covariance(x, y, ddof) ==
    RDiv(DevSum(x, Mean(x), y, Mean(y)), R(Max(Len(x) - ddof, 0)))

\* np.std(s, ddof=1) ** 2 and DataFrame.std(ddof=1) ** 2
Variance(s) == Covariance(s, s, 1)

\* np.log(prices[1:] / prices[:-1])
LogReturns(prices) ==
    IF Len(prices) < 2 THEN <<>>
    ELSE [i \in 1..(Len(prices) - 1) |->
             Log2(RDiv(prices[i + 1], prices[i]))]

\* One column of a table (a sequence of rows).
Column(table, c) == [i \in 1..Len(table) |-> table[i][c]]

\* DataFrame.dropna(): the rows without a missing value.
DropNa(table) == SelectSeq(table, LAMBDA row : ~HasNaN(row))

\* np.log(data / data.shift(1)).dropna(): the first row, NaN, is dropped.
LogReturnsTable(data, n_cols) ==
    DropNa([i \in 1..Len(data) |->
              [c \in 1..n_cols |->
                 IF i = 1 THEN NaN
                 ELSE Log2(RDiv(data[i][c], data[i - 1][c]))]])

\* DataFrame.cov(): the sample covariance matrix of the columns.
CovMatrix(returns, n_cols) ==
    [i \in 1..n_cols |-> [j \in 1..n_cols |->
        Covariance(Column(returns, i), Column(returns, j), 1)]]

\* ---------------------------------------------------------------- Cholesky
\* The matrix without row i and column j.
Minor(m, i, j) ==
    [r \in 1..(Len(m) - 1) |-> [c \in 1..(Len(m) - 1) |->
        m[IF r < i THEN r ELSE r + 1][IF c < j THEN c ELSE c + 1]]]

RECURSIVE Det(_)
RECURSIVE DetRow(_, _)
DetRow(m, j) ==
    IF j > Len(m) THEN R(0)
    ELSE RAdd(RMul(IF j % 2 = 1 THEN m[1][j] ELSE RNeg(m[1][j]),
                   Det(Minor(m, 1, j))),
              DetRow(m, j + 1))
Det(m) == IF Len(m) = 0 THEN R(1) ELSE DetRow(m, 1)

Leading(m, k) == [r \in 1..k |-> [c \in 1..k |-> m[r][c]]]

\* The squares of the diagonal of the Cholesky factor: the k-th is the ratio
\* of the k-th and (k-1)-th leading principal minors.
Pivots(m) ==
    [k \in 1..Len(m) |-> RDiv(Det(Leading(m, k)), Det(Leading(m, k - 1)))]

MatrixHasNaN(m) == \E i \in DOMAIN m : HasNaN(m[i])

\* The outcomes of np.linalg.cholesky.  A matrix with a pivot <= 0 raises
\* LinAlgError.  On a NaN matrix the outcome depends on the LAPACK build:
\* the reference potrf tests the pivot for NaN and fails, an optimised one
\* tests only pivot <= 0 and returns a factor of NaN.
CholeskyOutcomes(m) ==
    IF MatrixHasNaN(m) THEN {[status |-> "LinAlgError", diag_sq |-> <<>>],
                             [status |-> "nan", diag_sq |-> <<>>]}
    ELSE IF \A k \in 1..Len(m) : RLt(R(0), Pivots(m)[k])
         THEN {[status |-> "ok", diag_sq |-> Pivots(m)]}
         ELSE {[status |-> "LinAlgError", diag_sq |-> <<>>]}

\* ------------------------------------------------------------------ inputs
\* Closing prices are powers of two; 0 marks a missing value (NaN).
PriceLevels == {1, 2, 4}

ShockGrid == {-1, 1}

PriceOf(p) == IF p = 0 THEN NaN ELSE R(p)

\* A table of one column from a sequence of integer prices.
Table1(col) == [i \in 1..Len(col) |-> <<PriceOf(col[i])>>]

\* A table of two columns from two equally long sequences.
Table2(a, b) == [i \in 1..Len(a) |-> <<PriceOf(a[i]), PriceOf(b[i])>>]

\* The histories whose mean log-return (the net drift) is an integer or NaN,
\* so that every exponent the simulation takes is an integer.
ExactDrift(table, n_cols) ==
    \A c \in 1..n_cols :
        Mean(Column(LogReturnsTable(DropNa(table), n_cols), c))[2] <= 1

SeqsUpTo(S, n) == UNION {[1..k -> S] : k \in 0..n}

\* What yf.download(ticker) can return for forecast_engine.
ForecastTables ==
    {tb \in {Table1(col) : col \in SeqsUpTo(PriceLevels, MaxObs)} :
        ExactDrift(tb, 1)}

\* What yf.download(tickers)['Close'] can return for var_engine: one ticker
\* (possibly with missing values), or two tickers over two price levels and
\* at most sigma_window returns.
VarTables ==
    {tb \in {Table1(col) : col \in SeqsUpTo(PriceLevels \cup {0}, MaxObs)} :
        ExactDrift(tb, 1)}
    \cup
    {tb \in {Table2(ab[1], ab[2]) :
                ab \in UNION {[1..k -> {1, 2}] \X [1..k -> {1, 2}] :
                                k \in 0..(sigma_window + 1)}} :
        ExactDrift(tb, 2)}

\* The number of tickers a table was fetched for.
Tickers(tb) == IF tb = <<>> THEN 1 ELSE Len(tb[1])

WeightVectors == {<<R(1)>>, <<<<1, 2>>>>, <<<<1, 2>>, <<1, 2>>>>}

PortfolioValues == {8}

\* [0.95, 0.99] (the default), [0.95, 0.955] and [0.5]
ConfLists == {<<<<19, 20>>, <<99, 100>>>>, <<<<19, 20>>, <<191, 200>>>>,
              <<<<1, 2>>>>}


\* ------------------------------------------------------------------- state
VARIABLES
    np_random,       \* numpy's global generator: normals drawn since seeding
    pc,              \* "idle", "forecast_loop", "var_loop", "done"
    call,            \* the engine called: "none", "forecast_engine", "var_engine"
    error,           \* the exception the call raised, "" when none
    returned,        \* whether the call returned its result
    data,            \* the price table (forecast: as fetched; var: after dropna)
    days, n_simulations,
    weights, portfolio_value, conf_levels, n_assets,
    last_price,      \* forecast_engine: prices[-1]
    sigma_sq,        \* forecast_engine: sigma_daily ** 2
    mu_daily,
    drift,           \* a number (forecast_engine) or a vector (var_engine)
    price_paths,     \* rows 0..days, each of n_simulations prices
    Z,               \* the normals of the call (forecast) or of the step (var)
    t,               \* the loop index
    drawn,           \* the normals the call has drawn, in the generator's order
    expected_prices,
    latest_prices, recent_variance, mu_vector, cov_matrix,
    L,               \* the outcome of np.linalg.cholesky
    shares, simulated_prices,
    portfolio_paths, \* rows 0..days, each of n_simulations portfolio values
    pnl,
    results          \* the dict: int(conf * 100) |-> VaR

args == <<data, days, n_simulations, weights, portfolio_value, conf_levels,
          n_assets>>
flocals == <<last_price, sigma_sq, mu_daily, price_paths, expected_prices>>
vlocals == <<latest_prices, recent_variance, mu_vector, cov_matrix, L, shares,
             simulated_prices, portfolio_paths, pnl, results>>
vars == <<np_random, pc, call, error, returned, args, flocals, vlocals,
          drift, Z, t, drawn>>

NoForecastLocals ==
    /\ last_price' = NaN /\ sigma_sq' = NaN /\ mu_daily' = NaN
    /\ price_paths' = <<>> /\ expected_prices' = <<>>

NoVarArgs ==
    /\ weights' = <<>> /\ portfolio_value' = 0 /\ conf_levels' = <<>>
    /\ n_assets' = 0

NoVarLocals ==
    /\ latest_prices' = <<>> /\ recent_variance' = <<>> /\ mu_vector' = <<>>
    /\ cov_matrix' = <<>> /\ L' = [status |-> "none", diag_sq |-> <<>>]
    /\ shares' = <<>> /\ simulated_prices' = <<>> /\ portfolio_paths' = <<>>
    /\ pnl' = <<>> /\ results' = <<>>

\* An exception leaves the call.
Raise(e) ==
    /\ error' = e /\ returned' = FALSE /\ pc' = "done"
    /\ drift' = NaN /\ Z' = <<>> /\ t' = 0 /\ drawn' = <<>>
    /\ UNCHANGED np_random

\* The entries of a matrix in row-major order, the order they are drawn in.
RECURSIVE Flatten(_)
Flatten(m) == IF m = <<>> THEN <<>> ELSE Head(m) \o Flatten(Tail(m))

\* ---------------------------------------------------------- forecast_engine
\* np.zeros((rows, cols))
Zeros(rows, cols) == [r \in 0..(rows - 1) |-> [j \in 1..cols |-> R(0)]]

\* The path matrix with row 0 set: np.zeros((days + 1, n_simulations)), then
\* paths[0] = start.
StartPaths(d, n, start) ==
    [Zeros(d + 1, n) EXCEPT ![0] = [j \in 1..n |-> start]]

\* shock = sigma_daily * Z[t - 1][j], z being the value of the product for a
\* positive sigma_daily.
Shock(sigma2, z) ==
    IF IsNaN(sigma2) THEN NaN ELSE IF sigma2 = R(0) THEN R(0) ELSE R(z)

\* drift = mu_daily - (sigma_daily ** 2) / 2
NetDrift(mu, sigma2) == RSub(mu, RDiv(sigma2, R(2)))

\* The update with the row index off by one: row t - 1 is written from row
\* t - 1, so the first iteration rewrites row 0.
ForecastUpdateRowBefore(paths, tt, dr, sigma2, Zrow) ==
    [paths EXCEPT ![tt - 1] =
        [j \in DOMAIN paths[tt - 1] |->
            RMul(paths[tt - 1][j], Exp2(RAdd(dr, Shock(sigma2, Zrow[j]))))]]

\* price_paths[t] = price_paths[t - 1] * np.exp(drift + shock)
ForecastUpdate(paths, tt, dr, sigma2, Zrow) ==
    [paths EXCEPT ![tt] =
        [j \in DOMAIN paths[tt - 1] |->
            RMul(paths[tt - 1][j], Exp2(RAdd(dr, Shock(sigma2, Zrow[j]))))]]

\* The loop of lines 43-47 from iteration tt on.
RECURSIVE ForecastLoop(_, _, _, _, _, _)
ForecastLoop(paths, tt, d, dr, sigma2, zz) ==
    IF tt > d THEN paths
    ELSE ForecastLoop(ForecastUpdate(paths, tt, dr, sigma2, zz[tt]),
                      tt + 1, d, dr, sigma2, zz)

\* np.mean(price_paths, axis=1)
RowMeans(paths) == [r \in DOMAIN paths |-> Mean(paths[r])]

\* Lines 19-31: the last price, sigma_daily ** 2 and mu_daily of a history.
ForecastEstimate(tb) ==
    LET prices == Column(tb, 1)
        log_returns_all == LogReturns(prices)
        log_returns_recent == LastK(log_returns_all, sigma_window)
        s2 == Variance(log_returns_recent)
    IN [data |-> tb,
        last_price |-> IF prices = <<>> THEN NaN ELSE prices[Len(prices)],
        sigma_sq |-> s2,
        mu_daily |-> RAdd(Mean(log_returns_all), RDiv(s2, R(2)))]

ForecastEstimates == {ForecastEstimate(tb) : tb \in ForecastTables}

\* The path matrix forecast_engine returns for a history, a horizon, a
\* simulation count and the normals zz (lines 19-47).
ForecastPaths(tb, d, n, zz) ==
    LET est == ForecastEstimate(tb)
    IN ForecastLoop(StartPaths(d, n, est.last_price), 1, d,
                    NetDrift(est.mu_daily, est.sigma_sq), est.sigma_sq, zz)

\* Lines 15-42: fetch, estimate, allocate, draw.
ForecastCall ==
    /\ pc = "idle"
    /\ np_random < MaxDraws
    /\ \E est \in ForecastEstimates, d \in -2..MaxDays, n \in -1..MaxSims :
        /\ call' = "forecast_engine"
        /\ data' = est.data /\ days' = d /\ n_simulations' = n
        /\ NoVarArgs /\ NoVarLocals
        /\ IF Len(est.data) = 0
           THEN /\ Raise("ValueError: Unable to fetch data")
                /\ NoForecastLocals
           ELSE /\ last_price' = est.last_price
                /\ sigma_sq' = est.sigma_sq
                /\ mu_daily' = est.mu_daily
                /\ expected_prices' = <<>>
                /\ IF d + 1 < 0 \/ n < 0
                   THEN /\ Raise("ValueError: negative dimensions are not allowed")
                        /\ price_paths' = <<>>
                   ELSE IF d + 1 = 0
                   THEN /\ Raise("IndexError: index 0 is out of bounds")
                        /\ price_paths' = Zeros(0, n)
                   ELSE /\ price_paths' = StartPaths(d, n, est.last_price)
                        /\ \E zz \in [1..d -> [1..n -> ShockGrid]] :
                              Z' = zz /\ drawn' = Flatten(zz)
                        /\ np_random' = np_random + d * n
                        /\ drift' = NetDrift(est.mu_daily, est.sigma_sq)
                        /\ t' = 1
                        /\ pc' = "forecast_loop"
                        /\ error' = "" /\ returned' = FALSE

\* Lines 43-47: one iteration of the loop over t.
ForecastStep ==
    /\ pc = "forecast_loop"
    /\ t <= days
    /\ price_paths' = ForecastUpdate(price_paths, t, drift, sigma_sq, Z[t])
    /\ t' = t + 1
    /\ UNCHANGED <<np_random, pc, call, error, returned, args, drift, Z,
                   drawn, last_price, sigma_sq, mu_daily, expected_prices,
                   vlocals>>

\* Lines 49-50: the expected prices and the return.
ForecastReturn ==
    /\ pc = "forecast_loop"
    /\ t > days
    /\ expected_prices' = RowMeans(price_paths)
    /\ returned' = TRUE
    /\ pc' = "done"
    /\ UNCHANGED <<np_random, call, error, args, drift, Z, t, drawn,
                   last_price, sigma_sq, mu_daily, price_paths, vlocals>>

\* --------------------------------------------------------------- var_engine
\* The length numpy broadcasts two vectors to, -1 when it cannot.
BroadcastLen(a, b) ==
    IF a = b THEN a ELSE IF a = 1 THEN b ELSE IF b = 1 THEN a ELSE -1

\* Element i of a vector broadcast to a longer one.
At(v, i) == IF Len(v) = 1 THEN v[1] ELSE v[i]

\* shares = (portfolio_value * weights) / latest_prices
Shares(pv, w, latest) ==
    [i \in 1..BroadcastLen(Len(w), Len(latest)) |->
        RDiv(RMul(R(pv), At(w, i)), At(latest, i))]

\* np.tile(latest_prices, (n_simulations, 1))
Tile(latest, n) == [j \in 1..n |-> latest]

\* The drift without the Ito term taken off: mu_vector as it is.
DriftVectorNoIto(mu, cov) == mu

\* drift = mu_vector - np.diag(cov_matrix) / 2
DriftVector(mu, cov) ==
    [i \in 1..Len(mu) |-> RSub(mu[i], RDiv(cov[i][i], R(2)))]

\* correlated_shocks = Z @ L.T for one simulation, z[i] being the value of
\* the product's entry i; NaN when the factor is NaN.
CorrelatedShocks(factor, z) ==
    [i \in 1..Len(z) |-> IF factor.status = "nan" THEN NaN ELSE R(z[i])]

\* simulated_prices * np.exp(drift + correlated_shocks)
SimulatedPrices(prices, dr, factor, zz) ==
    [j \in 1..Len(prices) |->
        [i \in 1..Len(prices[j]) |->
            RMul(prices[j][i],
                 Exp2(RAdd(dr[i], CorrelatedShocks(factor, zz[j])[i])))]]

\* np.sum(simulated_prices * shares, axis=1)
PortfolioRow(prices, sh) ==
    [j \in 1..Len(prices) |->
        RSum([i \in 1..BroadcastLen(Len(prices[j]), Len(sh)) |->
                RMul(At(prices[j], i), At(sh, i))])]

RECURSIVE Insert(_, _)
Insert(x, s) ==
    IF s = <<>> THEN <<x>>
    ELSE IF RLe(x, Head(s)) THEN <<x>> \o s
    ELSE <<Head(s)>> \o Insert(x, Tail(s))

RECURSIVE Sort(_)
Sort(s) == IF s = <<>> THEN <<>> ELSE Insert(Head(s), Sort(Tail(s)))

\* np.percentile(a, q) on a non-empty a, by linear interpolation between the
\* order statistics around the index q / 100 * (n - 1); NaN if a holds a NaN.
Percentile(a, q) ==
    IF HasNaN(a) THEN NaN
    ELSE LET sorted == Sort(a)
             index == RMul(RDiv(q, R(100)), R(Len(a) - 1))
             lo == Floor(index)
             hi == IF lo + 1 > Len(a) - 1 THEN lo ELSE lo + 1
             g == RSub(index, R(lo))
         IN RAdd(sorted[lo + 1],
                 RMul(g, RSub(sorted[hi + 1], sorted[lo + 1])))

\* The VaR taken at the percentile conf * 100 instead of (1 - conf) * 100.
VaRAtConf(p, conf) == RNeg(Percentile(p, RMul(conf, R(100))))

\* var_value = -np.percentile(pnl, (1 - conf) * 100)
VaR(p, conf) == RNeg(Percentile(p, RMul(RSub(R(1), conf), R(100))))

\* The key f"{int(conf * 100)}%" of a confidence level, as the integer shown.
Key(conf) == Trunc(RMul(conf, R(100)))

\* The dict filled by the loop over conf_levels: a later level with the key
\* of an earlier one overwrites its entry.
RECURSIVE Results(_, _)
Results(p, levels) ==
    IF levels = <<>> THEN <<>>
    ELSE LET before == Results(p, SubSeq(levels, 1, Len(levels) - 1))
             conf == levels[Len(levels)]
         IN [k \in DOMAIN before \cup {Key(conf)} |->
                IF k = Key(conf) THEN VaR(p, conf) ELSE before[k]]

\* Lines 64-80: the cleaned table, the latest prices, the windowed variances,
\* mu_vector and the windowed covariance matrix.
VarEstimate(tb) ==
    LET n_cols == Tickers(tb)
        clean == DropNa(tb)
        log_returns_all == LogReturnsTable(clean, n_cols)
        log_returns_recent == LastK(log_returns_all, sigma_window)
        variance == [c \in 1..n_cols |->
                        Variance(Column(log_returns_recent, c))]
    IN [n_cols |-> n_cols,
        data |-> clean,
        latest_prices |-> IF clean = <<>> THEN <<>> ELSE clean[Len(clean)],
        recent_variance |-> variance,
        mu_vector |-> [c \in 1..n_cols |->
                          RAdd(Mean(Column(log_returns_all, c)),
                               RDiv(variance[c], R(2)))],
        cov_matrix |-> CovMatrix(log_returns_recent, n_cols)]

VarEstimates == {VarEstimate(tb) : tb \in VarTables}

\* Lines 64-99: fetch, clean, estimate, decompose, allocate.
VarCall ==
    /\ pc = "idle"
    /\ np_random < MaxDraws
    /\ \E est \in VarEstimates, w \in WeightVectors, pv \in PortfolioValues,
          d \in -2..MaxDays, n \in -1..MaxSims, cl \in ConfLists :
        /\ call' = "var_engine"
        /\ data' = est.data /\ days' = d /\ n_simulations' = n
        /\ weights' = w /\ portfolio_value' = pv /\ conf_levels' = cl
        /\ n_assets' = est.n_cols
        /\ NoForecastLocals
        /\ pnl' = <<>> /\ results' = <<>>
        /\ IF Len(est.data) = 0
           THEN /\ Raise("IndexError: single positional indexer is out-of-bounds")
                /\ latest_prices' = <<>> /\ recent_variance' = <<>>
                /\ mu_vector' = <<>> /\ cov_matrix' = <<>>
                /\ L' = [status |-> "none", diag_sq |-> <<>>]
                /\ shares' = <<>> /\ simulated_prices' = <<>>
                /\ portfolio_paths' = <<>>
           ELSE
           /\ latest_prices' = est.latest_prices
           /\ recent_variance' = est.recent_variance
           /\ mu_vector' = est.mu_vector
           /\ cov_matrix' = est.cov_matrix
           /\ \E factor \in CholeskyOutcomes(est.cov_matrix) :
               /\ L' = factor
               /\ IF factor.status = "LinAlgError"
                  THEN /\ Raise("LinAlgError: Matrix is not positive definite")
                       /\ shares' = <<>> /\ simulated_prices' = <<>>
                       /\ portfolio_paths' = <<>>
                  ELSE IF d + 1 < 0 \/ n < 0
                  THEN /\ Raise("ValueError: negative dimensions are not allowed")
                       /\ shares' = <<>> /\ simulated_prices' = <<>>
                       /\ portfolio_paths' = <<>>
                  ELSE IF d + 1 = 0
                  THEN /\ Raise("IndexError: index 0 is out of bounds")
                       /\ shares' = <<>> /\ simulated_prices' = <<>>
                       /\ portfolio_paths' = Zeros(0, n)
                  ELSE IF BroadcastLen(Len(w), est.n_cols) = -1
                  THEN /\ Raise("ValueError: operands could not be broadcast together")
                       /\ shares' = <<>> /\ simulated_prices' = <<>>
                       /\ portfolio_paths' = StartPaths(d, n, R(pv))
                  ELSE /\ portfolio_paths' = StartPaths(d, n, R(pv))
                       /\ shares' = Shares(pv, w, est.latest_prices)
                       /\ simulated_prices' = Tile(est.latest_prices, n)
                       /\ drift' = DriftVector(est.mu_vector, est.cov_matrix)
                       /\ Z' = <<>> /\ drawn' = <<>>
                       /\ t' = 1
                       /\ pc' = "var_loop"
                       /\ error' = "" /\ returned' = FALSE
                       /\ UNCHANGED np_random

\* Lines 100-113: one iteration of the loop over t.
VarStep ==
    /\ pc = "var_loop"
    /\ t <= days
    /\ \E zz \in [1..n_simulations -> [1..n_assets -> ShockGrid]] :
        LET prices == SimulatedPrices(simulated_prices, drift, L, zz)
        IN /\ Z' = zz
           /\ drawn' = drawn \o Flatten(zz)
           /\ simulated_prices' = prices
           /\ portfolio_paths' =
                  [portfolio_paths EXCEPT ![t] = PortfolioRow(prices, shares)]
    /\ np_random' = np_random + n_simulations * n_assets
    /\ t' = t + 1
    /\ UNCHANGED <<pc, call, error, returned, args, drift, flocals,
                   latest_prices, recent_variance, mu_vector, cov_matrix, L,
                   shares, pnl, results>>

\* Lines 115-127: the PnL, the VaR of every confidence level, the return.
\* np.percentile of an empty PnL is NaN or an IndexError, by numpy version.
VarReturn ==
    /\ pc = "var_loop"
    /\ t > days
    /\ LET final_values == portfolio_paths[days]
           p == [j \in 1..Len(final_values) |->
                    RSub(final_values[j], R(portfolio_value))]
       IN /\ pnl' = p
          /\ \/ /\ p # <<>>
                /\ results' = Results(p, conf_levels)
                /\ returned' = TRUE /\ error' = ""
             \/ /\ p = <<>>
                /\ results' = [k \in {Key(c) : c \in
                                 {conf_levels[i] : i \in DOMAIN conf_levels}}
                               |-> NaN]
                /\ returned' = TRUE /\ error' = ""
             \/ /\ p = <<>>
                /\ results' = <<>>
                /\ returned' = FALSE
                /\ error' = "IndexError: index -1 is out of bounds"
    /\ pc' = "done"
    /\ UNCHANGED <<np_random, call, args, drift, Z, t, drawn, flocals,
                   latest_prices, recent_variance, mu_vector, cov_matrix, L,
                   shares, simulated_prices, portfolio_paths>>

\* The caller takes the result or the exception; the call's frame is gone.
Finish ==
    /\ pc = "done"
    /\ pc' = "idle" /\ call' = "none" /\ error' = "" /\ returned' = FALSE
    /\ data' = <<>> /\ days' = 0 /\ n_simulations' = 0
    /\ NoVarArgs /\ NoForecastLocals /\ NoVarLocals
    /\ drift' = NaN /\ Z' = <<>> /\ t' = 0 /\ drawn' = <<>>
    /\ UNCHANGED np_random

Init ==
    /\ np_random = 0
    /\ pc = "idle" /\ call = "none" /\ error = "" /\ returned = FALSE
    /\ data = <<>> /\ days = 0 /\ n_simulations = 0
    /\ weights = <<>> /\ portfolio_value = 0 /\ conf_levels = <<>>
    /\ n_assets = 0
    /\ last_price = NaN /\ sigma_sq = NaN /\ mu_daily = NaN
    /\ drift = NaN /\ price_paths = <<>> /\ Z = <<>> /\ t = 0
    /\ drawn = <<>>
    /\ expected_prices = <<>>
    /\ latest_prices = <<>> /\ recent_variance = <<>> /\ mu_vector = <<>>
    /\ cov_matrix = <<>> /\ L = [status |-> "none", diag_sq |-> <<>>]
    /\ shares = <<>> /\ simulated_prices = <<>> /\ portfolio_paths = <<>>
    /\ pnl = <<>> /\ results = <<>>

Next ==
    \/ ForecastCall \/ ForecastStep \/ ForecastReturn
    \/ VarCall \/ VarStep \/ VarReturn
    \/ Finish

Spec == Init /\ [][Next]_vars

\* ------------------------------------------------------------------ claims
Levels == {conf_levels[i] : i \in DOMAIN conf_levels}

\* A call with a horizon and a simulation count of at least 1.
ValidHorizon == days >= 1 /\ n_simulations >= 1

\* var_engine's weights: one per ticker, summing to 1.
ValidWeights == Len(weights) = n_assets /\ RSum(weights) = R(1)

VarReturned == pc = "done" /\ call = "var_engine" /\ returned

C2_ZeroVolatility ==
    (pc = "done" /\ ValidHorizon /\ Len(data) >= 3)
    => /\ (call = "forecast_engine" /\ sigma_sq = R(0)) =>
            /\ returned
            /\ \A tt \in 0..days : \A j \in 1..n_simulations :
                  price_paths[tt][j] =
                      RMul(last_price, Exp2(RMul(drift, R(tt))))
       /\ (call = "var_engine" /\ ValidWeights
           /\ \A c \in 1..n_assets : recent_variance[c] = R(0)) =>
            /\ returned
            /\ \A tt \in 0..days : \A j \in 1..n_simulations :
                  portfolio_paths[tt][j] =
                      RSum([i \in 1..n_assets |->
                              RMul(RMul(shares[i], latest_prices[i]),
                                   Exp2(RMul(drift[i], R(tt))))])

\* C3: a call whose price history has fewer than 2 observations ends in the
\* data-unavailable error, having drawn no normal and returned nothing.
C3_DataUnavailable ==
    (call # "none" /\ ValidHorizon /\ Len(data) < 2)
    => /\ pc = "done" /\ ~returned /\ drawn = <<>>
       /\ error \in {"ValueError: Unable to fetch data",
                     "IndexError: single positional indexer is out-of-bounds"}

\* C4: a call with a non-positive horizon or simulation count, or var_engine
\* with weights that do not sum to 1 or are not one per ticker, ends in an
\* error: it never reaches the loop and returns nothing.
C4_InvalidParameters ==
    (call # "none"
     /\ (days <= 0 \/ n_simulations <= 0
         \/ (call = "var_engine" /\ ~ValidWeights)))
    => pc = "done" /\ ~returned /\ error # ""

\* C5: an otherwise valid var_engine call over a full window with more than
\* window - 2 assets, or with a covariance matrix that is not
\* positive-definite, ends in the decomposition's error, before the loop and
\* without a result.
C5_CorrelationError ==
    (call = "var_engine" /\ ValidHorizon /\ ValidWeights
     /\ Len(data) >= sigma_window + 1
     /\ (n_assets > sigma_window - 2
         \/ \E k \in 1..n_assets : ~RLt(R(0), Pivots(cov_matrix)[k])))
    => /\ pc = "done" /\ ~returned
       /\ error = "LinAlgError: Matrix is not positive definite"

\* C6: every value of the results returned for a PnL vector of numbers is a
\* non-negative loss.
C6_VaRNonNegative ==
    (VarReturned /\ pnl # <<>> /\ ~HasNaN(pnl))
    => \A k \in DOMAIN results : RLe(R(0), results[k])

\* C7: for a PnL vector of numbers, the VaR is non-decreasing in the
\* confidence level, as computed and as reported in results.
C7_VaRMonotone ==
    (VarReturned /\ pnl # <<>> /\ ~HasNaN(pnl))
    => \A c1, c2 \in Levels :
          RLe(c1, c2) =>
             /\ RLe(VaR(pnl, c1), VaR(pnl, c2))
             /\ RLe(results[Key(c1)], results[Key(c2)])

\* Two simulations with different PnL and two levels with different VaR.
C7_Witness ==
    /\ VarReturned /\ n_simulations = 2 /\ ~HasNaN(pnl)
    /\ pnl[1] # pnl[2]
    /\ \E c1, c2 \in Levels :
          RLt(c1, c2) /\ RLt(results[Key(c1)], results[Key(c2)])

\* The normals of a one-ticker var_engine call as forecast_engine's Z:
\* Z[t - 1][j] is the step-t draw Z[j][0].  A recorded draw is the value of
\* L[0][0] * Z, which is that of sigma_daily * Z when L[0][0] ** 2 equals
\* sigma_daily ** 2; otherwise the two shocks differ.
MatchedDraws ==
    LET sigma2 == ForecastEstimate(data).sigma_sq
        same == L.status # "ok" \/ L.diag_sq[1] = sigma2
    IN [tt \in 1..days |-> [j \in 1..n_simulations |->
           IF same THEN drawn[(tt - 1) * n_simulations + j] ELSE 0]]

\* C8: var_engine with one ticker and weight 1.0 returns, at every step and
\* simulation, portfolio_value / last_price times the price forecast_engine
\* returns for the same history, horizon, simulation count and draws; so do
\* the means over the simulations.
C8_SingleAssetReduction ==
    (VarReturned /\ n_assets = 1 /\ weights = <<R(1)>>)
    => LET paths == ForecastPaths(data, days, n_simulations, MatchedDraws)
           k == RDiv(R(portfolio_value), ForecastEstimate(data).last_price)
       IN \A tt \in 0..days :
             /\ \A j \in 1..n_simulations :
                   portfolio_paths[tt][j] = RMul(k, paths[tt][j])
             /\ Mean(portfolio_paths[tt]) = RMul(k, Mean(paths[tt]))

\* A one-ticker call over a history longer than the window, with a positive
\* volatility, two steps and two simulations that end apart.
C8_Witness ==
    /\ VarReturned /\ n_assets = 1 /\ weights = <<R(1)>>
    /\ L.status = "ok" /\ Len(data) > sigma_window + 1
    /\ days = 2 /\ n_simulations = 2
    /\ latest_prices[1] # R(portfolio_value)
    /\ portfolio_paths[2][1] # portfolio_paths[2][2]
    /\ portfolio_paths[2][1] # portfolio_paths[0][1]

\* C9: no step of a call changes state that outlives the call: the global
\* generator is left as it was found.
C9_Stateless == [][np_random' = np_random]_vars

\* C10: the results of a valid call hold one entry per distinct confidence
\* level requested, each level's own VaR.
C10_OneEntryPerLevel ==
    (VarReturned /\ ValidHorizon /\ ValidWeights /\ ~HasNaN(pnl)
     /\ Cardinality(Levels) = Len(conf_levels))
    => /\ Cardinality(DOMAIN results) = Len(conf_levels)
       /\ \A c \in Levels : results[Key(c)] = VaR(pnl, c)

====
